---- MODULE Spec2Model ----
(***************************************************************************)
(* A model of the cardinal Fast DDS bindings.                              *)
(*                                                                         *)
(*   src/lib/fastdds.cpp  the "simple" API: SimpleMessageTypeSupport (the  *)
(*                        length-prefixed wire codec) and                  *)
(*                        create/publish/receive/destroy_simple_*          *)
(*   src/fastdds.cpp      the participant-based API: the fixed-size        *)
(*                        HelloWorldMsgTypeSupport codec and               *)
(*                        create_participant/create_publisher/...          *)
(*                                                                         *)
(* Five specifications share the variables:                                *)
(*   Spec        the resource lifecycle (open, send, receive, close) of a  *)
(*               caller of both APIs                                       *)
(*   SpecSimple  the same for a caller of the simple API alone             *)
(*   SpecCodec   the two wire codecs applied to bounded inputs             *)
(*   SpecMessage opens of both APIs, then sends and receives of varied     *)
(*               messages, caller structs and payloads                     *)
(*   SpecChannel the simple API over a transport that delivers in order    *)
(***************************************************************************)
EXTENDS Integers, Sequences, FiniteSets, TLC

VARIABLES
    res,        \* transport resources: sequence of [kind, parent, rel]
    heap,       \* wrapper objects: sequence of records, index = address
    held,       \* wrapper addresses the caller was handed (closed ones too)
    parts,      \* participant pointers the caller got from create_participant
    last,       \* what the most recent call did
    fault,      \* undefined behaviour executed so far, "none" if none
    cin,        \* codec: the message given to serialize
    cbuf,       \* codec: the payload bytes (payload.data[0 .. length-1])
    cout,       \* codec: what the last codec call did
    cpc,        \* codec: position of the codec driver
    inbox,      \* ordered transport: payloads queued at each reader
    accepted,   \* per reader, the messages write accepted for it, in order
    returned    \* per reader, the messages receive handed to the caller

vars == <<res, heap, held, parts, last, fault, cin, cbuf, cout, cpc,
          inbox, accepted, returned>>
lifeVars == <<res, heap, held, parts, last, fault>>
codecVars == <<cin, cbuf, cout, cpc>>
chanVars == <<inbox, accepted, returned>>

(***************************************************************************)
(* Bounds of the model.                                                    *)
(***************************************************************************)
MaxHandles == 2         \* wrapper objects ever allocated
MaxParticipants == 1    \* participants ever made by create_participant
MaxLen == 2             \* length of the enumerated short texts
MaxBuf == 13            \* length of the enumerated raw payloads
MaxDecl == 3            \* length prefix declared by a raw payload
MaxQueue == 3           \* messages accepted for one reader

(***************************************************************************)
(* Program constants.                                                      *)
(***************************************************************************)
SizeofU32 == 4          \* sizeof(uint32_t)
SizeofI64 == 8          \* sizeof(int64_t)
TextCopyMax == 255      \* std::min(msg_len, 255u)
HelloContentSize == 256 \* char content[256]
HelloTypeSize == 264    \* m_typeSize, payload->length
SimpleMessageFieldSize == 256   \* char message[256] of SimpleMessage

Min(a, b) == IF a < b THEN a ELSE b
Max(a, b) == IF a > b THEN a ELSE b

(***************************************************************************)
(* Bytes, texts and timestamps.                                            *)
(***************************************************************************)
\* The byte values the model draws from: NUL, 1 and 'A'.
Alphabet == {0, 1, 65}

\* (the \o <<>> makes TLC build the sequence once instead of keeping a
\* function it re-evaluates at every use)
Fill(n, b) == [i \in 1..n |-> b] \o <<>>

\* std::string values: short texts over Alphabet (a std::string may hold
\* NUL bytes), and texts around the 255/256 limits.
ShortTexts == UNION {[1..n -> Alphabet] : n \in 0..MaxLen}
LongTexts == {Fill(n, 65) : n \in {TextCopyMax - 1, TextCopyMax, TextCopyMax + 1}}
Texts == ShortTexts \cup LongTexts

RECURSIVE ShiftRight8(_, _)
ShiftRight8(n, k) == IF k = 0 THEN n ELSE ShiftRight8(n \div 256, k - 1)

\* The object representation of a uint32_t / int64_t on a little-endian
\* build, which is what memcpy(&value) copies.
U32Bytes(n) == [i \in 1..SizeofU32 |-> ShiftRight8(n, i - 1) % 256] \o <<>>
I64Bytes(n) ==
    [i \in 1..SizeofI64 |->
        IF n >= 0 THEN ShiftRight8(n, i - 1) % 256
        ELSE 255 - (ShiftRight8(-n - 1, i - 1) % 256)] \o <<>>
U32Value(b) == b[1] + 256 * b[2] + 65536 * b[3] + 16777216 * b[4]

\* int64_t timestamps, kept as their 8-byte object representation.
TimeStamps == {I64Bytes(0), I64Bytes(1000), I64Bytes(-1)}

Messages == [text : Texts, timestamp : TimeStamps]

\* std::string(const char*): the bytes before the first NUL.
CStr(s) ==
    LET nul == {i \in 1..Len(s) : s[i] = 0}
        n == IF nul = {} THEN Len(s) ELSE (CHOOSE i \in nul : \A j \in nul : i <= j) - 1
    IN  SubSeq(s, 1, n)

\* memcpy(dst + pos, src, Len(src)) on a buffer of Len(dst) bytes.
Memcpy(dst, pos, src) ==
    [i \in 1..Len(dst) |->
        IF i > pos /\ i <= pos + Len(src) THEN src[i - pos] ELSE dst[i]] \o <<>>

\* payload.data[off] where the payload holds Len(data) bytes; a read past the
\* end yields whatever is there.
ReadAt(data, off, junk) == IF off < Len(data) THEN data[off + 1] ELSE junk
ReadN(data, off, n, junk) ==
    [i \in 1..n |-> ReadAt(data, off + i - 1, junk)] \o <<>>

(***************************************************************************)
(* SimpleMessageTypeSupport: [u32 length][text][i64 timestamp].            *)
(***************************************************************************)
SimpleMaxSerializedSize == 300  \* max_serialized_type_size

\* SerializedPayload_t::reserve: grows the buffer, zeroing the new part.
Reserve(buf, n) == IF Len(buf) >= n THEN buf ELSE buf \o Fill(n - Len(buf), 0)

\* calculate_serialized_size
SimpleCalculateSerializedSize(m) == SizeofU32 + Len(m.text) + SizeofI64

\* SimpleSerialize copying the c_str() terminator along with the text.
SimpleSerializeWithNul(m, prior) ==
    LET msg_len == Len(m.text)
        b0 == Reserve(prior, SizeofU32 + msg_len + 1 + SizeofI64)
        b1 == Memcpy(b0, 0, U32Bytes(msg_len))
        b2 == Memcpy(b1, SizeofU32, m.text \o <<0>>)
        pos2 == SizeofU32 + msg_len + 1
        b3 == Memcpy(b2, pos2, m.timestamp)
    IN  [ok |-> TRUE, data |-> b3, length |-> pos2 + SizeofI64,
         hi |-> pos2 + SizeofI64]

\* serialize(data, payload): prior is payload.data before the call.  hi is
\* the end of the furthest memcpy.
SimpleSerialize(m, prior) ==
    LET msg_len == Len(m.text)
        b0 == Reserve(prior, SizeofU32 + msg_len + SizeofI64)
        pos0 == 0
        b1 == Memcpy(b0, pos0, U32Bytes(msg_len))
        pos1 == pos0 + SizeofU32
        b2 == Memcpy(b1, pos1, SubSeq(m.text, 1, msg_len))
        pos2 == pos1 + msg_len
        b3 == Memcpy(b2, pos2, m.timestamp)
        pos3 == pos2 + SizeofI64
    IN  [ok |-> TRUE, data |-> b3, length |-> pos3,
         hi |-> Max(pos0 + SizeofU32, Max(pos1 + msg_len, pos2 + SizeofI64))]

\* deserialize(payload, data): data holds the payload's bytes; a read at an
\* offset >= Len(data) is out of bounds and yields junk.  reads is the end
\* of the furthest read.
SimpleDeserialize(data, junk) ==
    LET msg_len == U32Value(ReadN(data, 0, SizeofU32, junk))
        pos1 == SizeofU32
        n == Min(msg_len, TextCopyMax)
        buffer == ReadN(data, pos1, n, junk) \o <<0>>
        pos2 == pos1 + msg_len
        ts == ReadN(data, pos2, SizeofI64, junk)
    IN  [ok |-> TRUE,
         msg |-> [text |-> CStr(buffer), timestamp |-> ts],
         declared |-> msg_len,
         reads |-> Max(SizeofU32, Max(pos1 + n, pos2 + SizeofI64))]

(***************************************************************************)
(* HelloWorldMsgTypeSupport: [256 bytes content][i64 timestamp].           *)
(***************************************************************************)
\* serialize(data, payload): prior is the payload's m_typeSize bytes.
HelloSerialize(m, prior) ==
    LET n == Min(Len(m.text), TextCopyMax)
        b1 == Memcpy(prior, 0, SubSeq(m.text, 1, n))
        b2 == Memcpy(b1, TextCopyMax, <<0>>)
        b3 == Memcpy(b2, HelloContentSize, m.timestamp)
    IN  [ok |-> TRUE, data |-> b3, length |-> HelloTypeSize,
         hi |-> HelloContentSize + SizeofI64]

\* deserialize(payload, data)
HelloDeserialize(data, junk) ==
    LET content == Memcpy(ReadN(data, 0, HelloContentSize, junk), TextCopyMax, <<0>>)
        ts == ReadN(data, HelloContentSize, SizeofI64, junk)
    IN  [ok |-> TRUE,
         msg |-> [text |-> CStr(content), timestamp |-> ts],
         declared |-> 0,
         reads |-> HelloContentSize + SizeofI64]

Serialize(codec, m, prior) ==
    IF codec = "simple" THEN SimpleSerialize(m, prior) ELSE HelloSerialize(m, prior)
Deserialize(codec, data, junk) ==
    IF codec = "simple" THEN SimpleDeserialize(data, junk) ELSE HelloDeserialize(data, junk)

(***************************************************************************)
(* The codec driver: the transport calls serialize on a buffer it owns,    *)
(* and deserialize on a payload it received.                               *)
(***************************************************************************)
Codecs == {"simple", "hello"}

\* The buffer the transport hands to serialize: fresh, or a pooled one of
\* the type's declared size still holding old bytes.
PriorBuffers(codec) ==
    IF codec = "simple"
    THEN {<<>>} \cup {Fill(SimpleMaxSerializedSize, b) : b \in Alphabet}
    ELSE {Fill(HelloTypeSize, b) : b \in Alphabet}

\* Payloads as a peer may send them: the first len bytes of a length prefix
\* declaring decl followed by fill bytes.
RawPayloads ==
    {SubSeq(U32Bytes(decl) \o Fill(MaxBuf, b), 1, len) :
        decl \in 0..MaxDecl, len \in 0..MaxBuf, b \in Alphabet}

NoMsg == [text |-> <<>>, timestamp |-> I64Bytes(0)]
NoCall == [op |-> "none", codec |-> "simple", ok |-> FALSE, msg |-> NoMsg,
           length |-> 0, hi |-> 0, size |-> 0, tail |-> TRUE,
           declared |-> 0, reads |-> 0, buflen |-> 0, from |-> "idle"]

CodecInit ==
    /\ cin = NoMsg
    /\ cbuf = <<>>
    /\ cout = NoCall
    /\ cpc = "idle"

\* The transport serializes a message into one of its buffers.
CodecSerialize ==
    /\ cpc = "idle"
    /\ \E codec \in Codecs, m \in Messages :
      \E prior \in PriorBuffers(codec) :
        LET r == Serialize(codec, m, prior)
        IN  /\ cin' = m
            /\ cbuf' = SubSeq(r.data, 1, r.length)
            /\ cout' = [NoCall EXCEPT !.op = "serialize", !.codec = codec,
                          !.ok = r.ok, !.length = r.length, !.hi = r.hi,
                          !.size = SimpleCalculateSerializedSize(m),
                          !.tail = SubSeq(r.data, r.length + 1, Len(prior))
                                     = SubSeq(prior, r.length + 1, Len(prior)),
                          !.from = cpc]
            /\ cpc' = "encoded"
            /\ UNCHANGED <<lifeVars, chanVars>>

\* A payload arrives from a peer.
CodecRaw ==
    /\ cpc = "idle"
    /\ \E raw \in RawPayloads :
        /\ cin' = NoMsg
        /\ cbuf' = raw
        /\ cout' = [NoCall EXCEPT !.op = "raw", !.buflen = Len(raw), !.from = cpc]
        /\ cpc' = "raw"
        /\ UNCHANGED <<lifeVars, chanVars>>

\* The transport deserializes the payload it holds.
CodecDeserialize ==
    /\ cpc \in {"encoded", "raw"}
    /\ \E codec \in Codecs, junk \in Alphabet :
        /\ cpc = "encoded" => codec = cout.codec
        /\ LET r == Deserialize(codec, cbuf, junk)
           IN  cout' = [NoCall EXCEPT !.op = "deserialize", !.codec = codec,
                          !.ok = r.ok, !.msg = r.msg, !.declared = r.declared,
                          !.reads = r.reads, !.buflen = Len(cbuf),
                          !.from = cpc]
    /\ cpc' = "decoded"
    /\ UNCHANGED <<cin, cbuf>>
    /\ UNCHANGED <<lifeVars, chanVars>>

CodecNext == CodecSerialize \/ CodecRaw \/ CodecDeserialize

(***************************************************************************)
(* The transport's resources and the wrapper objects.                      *)
(*                                                                         *)
(* res[r] is a participant, topic, publisher/subscriber ("group") or       *)
(* writer/reader ("endpoint"); ids are handed out in creation order.  rel  *)
(* counts the delete_* calls made on it: the code ignores the status of    *)
(* every delete_* call, so a resource counts as released once delete_* was *)
(* called on it.  heap[h] is a Simple*Wrapper / DDS*Wrapper at address h;  *)
(* 0 is nullptr.                                                           *)
(***************************************************************************)
Steps == <<"participant", "type", "topic", "group", "endpoint">>
NoFailure == Len(Steps) + 1

Resource(kind, parent) == [kind |-> kind, parent |-> parent, rel |-> 0]
Live(r) == res[r].rel = 0

\* new SimplePublisherWrapper(): value-initialised, every pointer null.
NewWrapper(api, mode) ==
    [st |-> "live", api |-> api, mode |-> mode,
     participant |-> 0, group |-> 0, topic |-> 0, endpoint |-> 0]

\* A handle is Ready when its wrapper is alive and owns a whole live chain.
Ready(h) ==
    /\ h \in 1..Len(heap)
    /\ heap[h].st = "live"
    /\ \A r \in {heap[h].participant, heap[h].group, heap[h].topic, heap[h].endpoint} :
          r # 0 /\ Live(r)

\* The state of the wrapper behind a pointer the caller passes.
ArgState(h) == IF h = 0 THEN "null" ELSE heap[h].st

\* The pointers a caller can pass to a function of one API and mode.
Handles(api, mode) ==
    {0} \cup {h \in held : heap[h].api = api /\ heap[h].mode = mode}

\* The caller's SimpleMessage / HelloWorldMsg: the text field and the
\* timestamp.
FieldSize(api) ==
    IF api = "simple" THEN SimpleMessageFieldSize ELSE HelloContentSize

\* The struct a caller passes to receive: zeroed, or holding old bytes.
StructsOf(size) ==
    {[message |-> Fill(size, b), timestamp |-> I64Bytes(0)] : b \in {0, 65}}
SimpleCallerStructs == StructsOf(SimpleMessageFieldSize)
HelloCallerStructs == StructsOf(HelloContentSize)
CallerStructs(api) ==
    IF api = "simple" THEN SimpleCallerStructs ELSE HelloCallerStructs

NoStruct == [message |-> <<>>, timestamp |-> I64Bytes(0)]

NoLast ==
    [op |-> "none", api |-> "none", mode |-> "none", arg |-> 0, argst |-> "null",
     ready |-> FALSE, ret |-> 0, failed |-> "none", how |-> "none",
     acquired |-> {}, steps |-> <<>>, released |-> <<>>, statuses |-> <<>>,
     prim |-> 0, msg |-> NoMsg, took |-> FALSE, buflen |-> 0, declared |-> 0,
     before |-> NoStruct, stored |-> NoStruct, hi |-> 0]

\* delete_* called on each resource of calls, in that order.
RECURSIVE ReleaseAll(_, _)
ReleaseAll(rs, calls) ==
    IF calls = <<>> THEN rs
    ELSE ReleaseAll([rs EXCEPT ![Head(calls)].rel = @ + 1], Tail(calls))

LifeInit ==
    /\ res = <<>>
    /\ heap = <<>>
    /\ held = {}
    /\ parts = {}
    /\ last = NoLast
    /\ fault = "none"
    /\ inbox = <<>>
    /\ accepted = <<>>
    /\ returned = <<>>

(***************************************************************************)
(* create_simple_publisher / create_simple_subscriber.                     *)
(* k is the step that fails (NoFailure: none), how is "null" for a null or *)
(* non-OK result and "throw" for an exception.                             *)
(***************************************************************************)
\* The resources acquired before step k fails.
AcquiredBefore(k) ==
    CASE k = 1 -> 0
      [] k \in {2, 3} -> 1
      [] k = 4 -> 2
      [] k = 5 -> 3
      [] OTHER -> 4

\* The chain an open builds on top of base existing resources, first n.
Chain(base, n) ==
    SubSeq(<<Resource("participant", 0), Resource("topic", base + 1),
             Resource("group", base + 1), Resource("endpoint", base + 3)>>, 1, n)

\* What a failed create_simple_* releases before it returns: the failure
\* branches only "delete wrapper", the catch block releases nothing.
SimpleUnwind(w, k, how) == <<>>

\* What create_simple_* returns when step k fails: nullptr from every
\* failure branch and from the catch block, the wrapper h otherwise.
OpenReturn(k, h) == IF k = NoFailure THEN h ELSE 0

CreateSimple(mode) ==
    /\ fault = "none"
    /\ Len(heap) < MaxHandles
    /\ \E k \in 1..NoFailure, how \in {"null", "throw", "none"} :
        /\ (k = NoFailure) <=> (how = "none")
        /\ LET base == Len(res)
               n == AcquiredBefore(k)
               h == Len(heap) + 1
               w == [NewWrapper("simple", mode) EXCEPT
                        !.participant = IF n >= 1 THEN base + 1 ELSE 0,
                        !.topic = IF n >= 2 THEN base + 2 ELSE 0,
                        !.group = IF n >= 3 THEN base + 3 ELSE 0,
                        !.endpoint = IF n >= 4 THEN base + 4 ELSE 0]
               unwound == SimpleUnwind(w, k, how)
           IN  /\ res' = ReleaseAll(res \o Chain(base, n), unwound)
               /\ heap' =
                    IF k = 1 THEN heap
                    ELSE Append(heap,
                            [w EXCEPT !.st = IF how = "null" THEN "freed" ELSE "live"])
               /\ held' = IF k = NoFailure THEN held \cup {h} ELSE held
               /\ last' = [NoLast EXCEPT
                            !.op = "create", !.api = "simple", !.mode = mode,
                            !.ret = OpenReturn(k, h),
                            !.failed = IF k = NoFailure THEN "none" ELSE Steps[k],
                            !.how = how,
                            !.acquired = (base + 1)..(base + n),
                            !.steps = SubSeq(Steps, 1, Min(k, Len(Steps))),
                            !.released = unwound]
    /\ UNCHANGED <<parts, fault>>
    /\ UNCHANGED codecVars
    /\ UNCHANGED chanVars

CreateSimplePublisher == CreateSimple("pub")
CreateSimpleSubscriber == CreateSimple("sub")

(***************************************************************************)
(* destroy_simple_publisher / destroy_simple_subscriber.                   *)
(***************************************************************************)
\* SimpleDestroyCalls releasing the participant before what it owns.
SimpleDestroyCallsParticipantFirst(w) ==
    SelectSeq(<<w.participant, w.endpoint, w.topic, w.group>>, LAMBDA r : r # 0)

\* SimpleDestroyCalls with one participant shared by every wrapper of the
\* process (the first one made) in place of the wrapper's own.
SimpleDestroyCallsSharedParticipant(w) ==
    SelectSeq(<<w.endpoint, w.topic, w.group, 1>>, LAMBDA r : r # 0)

\* The delete_* calls of a destroy_simple_*, in the order made: writer or
\* reader, topic, publisher or subscriber, participant, skipping nulls.
SimpleDestroyCalls(w) ==
    SelectSeq(<<w.endpoint, w.topic, w.group, w.participant>>, LAMBDA r : r # 0)

\* destroy_publisher / destroy_subscriber: the same without the participant.
LegacyDestroyCalls(w) ==
    SelectSeq(<<w.endpoint, w.topic, w.group>>, LAMBDA r : r # 0)

DestroyCalls(w) ==
    IF w.api = "simple" THEN SimpleDestroyCalls(w) ELSE LegacyDestroyCalls(w)

\* The ReturnCode_t of a delete_* call, and the statuses of the (at most
\* four) delete_* calls of one destroy.
DeleteStatus == {"ok", "error"}
DeleteStatuses == [1..(Len(Steps) - 1) -> DeleteStatus]

\* A destroy that stops at the first delete_* call reporting an error.
DestroyAttemptsUntilError(planned, sts) ==
    LET bad == {i \in 1..Len(planned) : sts[i] # "ok"}
    IN  IF bad = {} THEN planned
        ELSE SubSeq(planned, 1, CHOOSE i \in bad : \A j \in bad : i <= j)

\* The delete_* calls a destroy makes when they report statuses sts: the
\* return value of every delete_* is discarded, so all of them are made.
DestroyAttempts(planned, sts) == planned

\* wrapper->participant->delete_topic / delete_publisher on a participant
\* that destroy_participant already released.
OnDeadParticipant(w, calls) ==
    /\ w.participant # 0
    /\ ~Live(w.participant)
    /\ \E i \in 1..Len(calls) : res[calls[i]].parent = w.participant

\* A pointer to a wrapper that was already deleted is dangling: reading its
\* fields is undefined.  Either the freed memory still holds the old fields
\* ("stale": the calls are made again and the wrapper is deleted twice) or
\* the process dies on the access ("crash").
Destroy(api, mode) ==
    /\ fault = "none"
    /\ \E h \in Handles(api, mode), ub \in {"stale", "crash"}, sts \in DeleteStatuses :
        LET st == ArgState(h)
            planned == IF st = "null" \/ (st = "freed" /\ ub = "crash") THEN <<>>
                       ELSE DestroyCalls(heap[h])
            calls == DestroyAttempts(planned, sts)
        IN  /\ st # "freed" => ub = "stale"
            /\ \A i \in 1..Len(sts) :
                  (i > Len(planned) \/ st # "live") => sts[i] = "ok"
            /\ res' = ReleaseAll(res, calls)
            /\ heap' = IF st = "live" THEN [heap EXCEPT ![h].st = "freed"] ELSE heap
            /\ fault' = IF st = "freed" THEN "use_after_free"
                        ELSE IF st = "live" /\ OnDeadParticipant(heap[h], calls)
                             THEN "use_after_release"
                        ELSE "none"
            /\ last' = [NoLast EXCEPT
                         !.op = "destroy", !.api = api, !.mode = mode,
                         !.arg = h, !.argst = st, !.ready = Ready(h),
                         !.released = calls,
                         !.statuses = SubSeq(sts, 1, Len(calls))]
    /\ UNCHANGED <<held, parts>>
    /\ UNCHANGED codecVars
    /\ UNCHANGED chanVars

DestroySimplePublisher == Destroy("simple", "pub")
DestroySimpleSubscriber == Destroy("simple", "sub")
DestroyPublisher == Destroy("legacy", "pub")
DestroySubscriber == Destroy("legacy", "sub")

(***************************************************************************)
(* create_participant / destroy_participant.                               *)
(***************************************************************************)
CreateParticipant ==
    /\ fault = "none"
    /\ Cardinality(parts) < MaxParticipants
    /\ \E ok \in BOOLEAN :
        /\ res' = IF ok THEN Append(res, Resource("participant", 0)) ELSE res
        /\ parts' = IF ok THEN parts \cup {Len(res) + 1} ELSE parts
        /\ last' = [NoLast EXCEPT
                     !.op = "create_participant", !.api = "legacy",
                     !.ret = IF ok THEN Len(res) + 1 ELSE 0,
                     !.failed = IF ok THEN "none" ELSE "participant",
                     !.how = IF ok THEN "none" ELSE "null",
                     !.acquired = IF ok THEN {Len(res) + 1} ELSE {},
                     !.steps = <<"participant">>]
    /\ UNCHANGED <<heap, held, fault>>
    /\ UNCHANGED codecVars
    /\ UNCHANGED chanVars

\* if (participant) delete_participant(participant); the pointer may be one
\* that was destroyed before.
DestroyParticipant ==
    /\ fault = "none"
    /\ \E p \in parts \cup {0} :
        LET calls == IF p = 0 THEN <<>> ELSE <<p>>
        IN  /\ res' = ReleaseAll(res, calls)
            /\ fault' = IF p # 0 /\ ~Live(p) THEN "use_after_release" ELSE "none"
            /\ last' = [NoLast EXCEPT
                         !.op = "destroy_participant", !.api = "legacy",
                         !.arg = p, !.released = calls]
    /\ UNCHANGED <<heap, held, parts>>
    /\ UNCHANGED codecVars
    /\ UNCHANGED chanVars

(***************************************************************************)
(* create_publisher / create_subscriber: no result is checked.             *)
(* reg, t, g, e say whether register_type, create_topic,                   *)
(* create_publisher/subscriber and create_datawriter/reader succeed.  The  *)
(* transport makes no topic of an unregistered type and no endpoint on a   *)
(* null topic.                                                             *)
(***************************************************************************)
CreateLegacy(mode) ==
    /\ fault = "none"
    /\ Len(heap) < MaxHandles
    /\ \E p \in parts \cup {0}, reg \in BOOLEAN, t \in BOOLEAN,
          g \in BOOLEAN, e \in BOOLEAN :
        LET usable == p # 0 /\ Live(p)
            base == Len(res)
            tid == IF t THEN base + 1 ELSE 0
            gid == IF g THEN base + (IF t THEN 2 ELSE 1) ELSE 0
            eid == IF e THEN gid + 1 ELSE 0
            made == (IF t THEN <<Resource("topic", p)>> ELSE <<>>)
                    \o (IF g THEN <<Resource("group", p)>> ELSE <<>>)
                    \o (IF e THEN <<Resource("endpoint", gid)>> ELSE <<>>)
            h == Len(heap) + 1
            w == [NewWrapper("legacy", mode) EXCEPT
                    !.participant = p, !.topic = tid, !.group = gid, !.endpoint = eid]
            firstFailed == IF ~reg THEN "type" ELSE IF ~t THEN "topic"
                           ELSE IF ~g THEN "group" ELSE IF ~e THEN "endpoint"
                           ELSE "none"
        IN  /\ t => reg
            /\ e => (t /\ g)
            /\ ~usable => (~reg /\ ~t /\ ~g /\ ~e)
            /\ res' = res \o made
            \* participant->create_topic on a null or released participant,
            \* wrapper->publisher->create_datawriter on a null publisher
            /\ fault' = IF p = 0 THEN "null_deref"
                        ELSE IF ~Live(p) THEN "use_after_release"
                        ELSE IF ~g THEN "null_deref"
                        ELSE "none"
            /\ heap' = Append(heap, w)
            /\ held' = IF fault' = "none" THEN held \cup {h} ELSE held
            /\ last' = [NoLast EXCEPT
                         !.op = "create", !.api = "legacy", !.mode = mode,
                         !.arg = p,
                         !.ret = IF fault' = "none" THEN h ELSE 0,
                         !.failed = firstFailed,
                         !.how = IF firstFailed = "none" THEN "none" ELSE "null",
                         !.acquired = (base + 1)..(base + Len(made)),
                         !.steps = IF usable THEN SubSeq(Steps, 2, Len(Steps))
                                   ELSE <<"type">>]
    /\ UNCHANGED parts
    /\ UNCHANGED codecVars
    /\ UNCHANGED chanVars

CreatePublisher == CreateLegacy("pub")
CreateSubscriber == CreateLegacy("sub")

(***************************************************************************)
(* publish_simple_message / receive_simple_message and                     *)
(* publish_message / receive_message.                                      *)
(***************************************************************************)
\* The statuses of writer->write and reader->read_next_sample.
Outcomes(op) ==
    IF op = "send" THEN {"ok", "error", "throw"}
    ELSE {"ok", "nodata", "error", "throw"}

\* if (!wrapper || !wrapper->writer) return -1; only the simple API has it.
\* Evaluated on a non-dangling pointer.
Rejects(api, h) ==
    api = "simple" /\ (h = 0 \/ heap[h].endpoint = 0)

\* The endpoint write/read_next_sample is called on is not usable: the
\* pointer is null, or the endpoint or a container of it was released.
DeadEndpoint(r) ==
    \/ r = 0
    \/ ~Live(r)
    \/ ~Live(res[r].parent)
    \/ ~Live(res[res[r].parent].parent)

\* The return of the null check: return -1.
RejectReturn == -1

\* PublishReturn without the comparison with RETCODE_OK.
PublishReturnIgnoresStatus(out) == 0

\* writer->write(...) == RETCODE_OK ? 0 : -1, and -1 from the catch block.
PublishReturn(out) == IF out = "ok" THEN 0 ELSE -1

\* return 0 after read_next_sample == RETCODE_OK; "return -1; // No data
\* available" for every other status; -1 from the catch block.
ReceiveReturn(out) == IF out = "ok" THEN 0 ELSE -1

\* The (message, timestamp) arguments of a publish call; message is a C
\* string of any length.
SendMessages ==
    {[text |-> <<65>>, timestamp |-> I64Bytes(1000)],
     [text |-> Fill(TextCopyMax + 1, 65), timestamp |-> I64Bytes(-1)]}

CodecOf(api) == IF api = "simple" THEN "simple" ELSE "hello"

\* The payload write makes of m with the type's serialize.
Payload(api, m) ==
    LET prior == IF api = "simple" THEN <<>> ELSE Fill(HelloTypeSize, 0)
        s == Serialize(CodecOf(api), m, prior)
    IN  SubSeq(s.data, 1, s.length)

\* Payloads of a peer that does not follow the wire format: cut inside the
\* header, and declaring more text than the payload holds.
PeerPayloads ==
    {SubSeq(U32Bytes(MaxDecl) \o Fill(MaxBuf, 65), 1, len) :
        len \in {SizeofU32 + 1, MaxBuf}}

\* The payloads a reader's history may hold: those of the messages sent in
\* this type and, on the length-prefixed wire, those of such a peer.
SimpleSamples == {Payload("simple", m) : m \in SendMessages} \cup PeerPayloads
HelloSamples == {Payload("legacy", m) : m \in SendMessages}
Samples(api) == IF api = "simple" THEN SimpleSamples ELSE HelloSamples

\* StoreMessage without msg->message[255] = '\0'.
StoreMessageUnterminated(before, m) ==
    LET c == CStr(m.text)
        n == Min(Len(c), TextCopyMax)
        b1 == Memcpy(before.message, 0, SubSeq(c, 1, n) \o Fill(TextCopyMax - n, 0))
    IN  [message |-> b1, timestamp |-> m.timestamp, hi |-> TextCopyMax]

\* strncpy(msg->message, msg_data.message.c_str(), 255);
\* msg->message[255] = '\0'; msg->timestamp = msg_data.timestamp;
\* strncpy pads with NULs up to 255 bytes.  hi is the end of the furthest
\* write into the text field.
StoreMessage(before, m) ==
    LET c == CStr(m.text)
        n == Min(Len(c), TextCopyMax)
        b1 == Memcpy(before.message, 0, SubSeq(c, 1, n) \o Fill(TextCopyMax - n, 0))
        b2 == Memcpy(b1, TextCopyMax, <<0>>)
    IN  [message |-> b2, timestamp |-> m.timestamp, hi |-> TextCopyMax + 1]

\* What a read that did not run deserialize leaves in msg_data.
NoDecode == [ok |-> TRUE, msg |-> NoMsg, declared |-> 0, reads |-> 0]

\* The message a caller reads in its struct after a receive.
ReadBack(struct) ==
    [text |-> CStr(struct.message), timestamp |-> struct.timestamp]

\* The queue of reader ep in the ordered transport.
Queue(q, ep) == IF ep \in DOMAIN q THEN q[ep] ELSE <<>>

\* q with x appended to the queue of every reader in eps.
Enqueue(q, eps, x) ==
    [e \in DOMAIN q \cup eps |->
        IF e \in eps THEN Append(Queue(q, e), x) ELSE q[e]]

\* The live readers a write on this API's topic is delivered to.
Readers(api) ==
    {heap[g].endpoint : g \in {x \in 1..Len(heap) :
        /\ heap[x].st = "live" /\ heap[x].api = api /\ heap[x].mode = "sub"
        /\ ~DeadEndpoint(heap[x].endpoint)}}

\* The inputs a call draws: one message, struct and payload, or all of those
\* enumerated above.
OneMessage == [text |-> <<65>>, timestamp |-> I64Bytes(1000)]
MessagesOf(inputs) == IF inputs = "all" THEN SendMessages ELSE {OneMessage}
StructsFor(api, inputs) ==
    IF inputs = "all" THEN CallerStructs(api)
    ELSE {[message |-> Fill(FieldSize(api), 0), timestamp |-> I64Bytes(0)]}
SamplesFor(api, inputs) ==
    IF inputs = "all" THEN Samples(api) ELSE {Payload(api, OneMessage)}
JunkFor(inputs) == IF inputs = "all" THEN {0, 65} ELSE {65}

(***************************************************************************)
(* transport = "any": the transport's queues are not modelled; write and   *)
(* read_next_sample report any status and a read hands over any payload of *)
(* the samples.  transport = "fifo": an ordered transport; an accepted     *)
(* write is queued at every live reader and read_next_sample takes the     *)
(* head of the reader's queue, reporting no data when it is empty.  In     *)
(* both, the transport runs the type's serialize on a write and            *)
(* deserialize on a read, and a read whose deserialize fails reports an    *)
(* error.                                                                  *)
(***************************************************************************)
Transfer(api, mode, op, transport, inputs) ==
    /\ fault = "none"
    /\ \E h \in Handles(api, mode), ub \in {"stale", "crash"} :
        LET st == ArgState(h)
            rejected == st # "freed" /\ Rejects(api, h)
            died == ~rejected /\ (st = "null" \/ (st = "freed" /\ ub = "crash"))
            ep == IF rejected \/ died THEN 0 ELSE heap[h].endpoint
            called == ~rejected /\ ~died /\ ep # 0
            defined == called /\ st = "live" /\ ~DeadEndpoint(ep)
            queue == Queue(inbox, ep)
        IN
        /\ st # "freed" => ub = "stale"
        /\ \E out \in (IF defined THEN Outcomes(op) ELSE {"ok"}),
              m \in (IF op = "send" THEN MessagesOf(inputs) ELSE {NoMsg}),
              before \in (IF op = "receive" THEN StructsFor(api, inputs)
                          ELSE {NoStruct}) :
            LET flt == IF rejected THEN "none"
                       ELSE IF st = "freed" THEN "use_after_free"
                       ELSE IF st = "null" \/ ep = 0 THEN "null_deref"
                       ELSE IF DeadEndpoint(ep) THEN "use_after_release"
                       ELSE IF out = "throw" /\ api = "legacy" THEN "uncaught_exception"
                       ELSE "none"
                wrote == defined /\ op = "send" /\ out = "ok"
                took == defined /\ op = "receive" /\ out = "ok"
            IN
            /\ (defined /\ op = "receive" /\ transport = "fifo") =>
                  /\ out = "ok" => queue # <<>>
                  /\ out = "nodata" => queue = <<>>
            /\ (wrote /\ transport = "fifo") =>
                  \A e \in Readers(api) : Len(Queue(accepted, e)) < MaxQueue
            \* (one-element sets: TLC evaluates the value once)
            /\ \E payload \in (IF ~took THEN {<<>>}
                               ELSE IF transport = "fifo" THEN {Head(queue)}
                               ELSE SamplesFor(api, inputs)) :
               \E junk \in (IF took THEN JunkFor(inputs) ELSE {0}) :
               \E r \in {IF took THEN Deserialize(CodecOf(api), payload, junk)
                         ELSE NoDecode} :
               \E s \in {IF took /\ r.ok THEN StoreMessage(before, r.msg)
                         ELSE [message |-> before.message,
                               timestamp |-> before.timestamp, hi |-> 0]} :
                LET status == IF took /\ ~r.ok THEN "error" ELSE out
                    stored == [message |-> s.message, timestamp |-> s.timestamp]
                IN  /\ fault' = flt
                    /\ last' = [NoLast EXCEPT
                                 !.op = op, !.api = api, !.mode = mode,
                                 !.arg = h, !.argst = st, !.ready = Ready(h),
                                 !.ret = IF ~called THEN RejectReturn
                                         ELSE IF op = "send" THEN PublishReturn(status)
                                         ELSE ReceiveReturn(status),
                                 !.how = IF called THEN status ELSE "none",
                                 !.prim = IF called THEN ep ELSE 0,
                                 !.msg = IF took THEN r.msg ELSE m,
                                 !.took = took,
                                 !.buflen = Len(payload),
                                 !.declared = r.declared,
                                 !.before = before,
                                 !.stored = stored,
                                 !.hi = s.hi]
                    /\ IF transport = "fifo" /\ wrote
                       THEN /\ inbox' = Enqueue(inbox, Readers(api), Payload(api, m))
                            /\ accepted' = Enqueue(accepted, Readers(api), m)
                            /\ returned' = returned
                       ELSE IF transport = "fifo" /\ took
                       THEN /\ inbox' = [inbox EXCEPT ![ep] = Tail(@)]
                            /\ returned' = Enqueue(returned, {ep}, ReadBack(stored))
                            /\ accepted' = accepted
                       ELSE UNCHANGED chanVars
    /\ UNCHANGED <<res, heap, held, parts>>
    /\ UNCHANGED codecVars

PublishSimpleMessage == Transfer("simple", "pub", "send", "any", "one")
ReceiveSimpleMessage == Transfer("simple", "sub", "receive", "any", "one")
PublishMessage == Transfer("legacy", "pub", "send", "any", "one")
ReceiveMessage == Transfer("legacy", "sub", "receive", "any", "one")

\* The same calls with every enumerated message, struct and payload.
PublishSimpleMessageVaried == Transfer("simple", "pub", "send", "any", "all")
ReceiveSimpleMessageVaried == Transfer("simple", "sub", "receive", "any", "all")
PublishMessageVaried == Transfer("legacy", "pub", "send", "any", "all")
ReceiveMessageVaried == Transfer("legacy", "sub", "receive", "any", "all")

\* The same calls over an ordered transport.
OrderedPublishSimpleMessage == Transfer("simple", "pub", "send", "fifo", "all")
OrderedReceiveSimpleMessage == Transfer("simple", "sub", "receive", "fifo", "all")

(***************************************************************************)
(* The specifications.                                                     *)
(***************************************************************************)
Init == LifeInit /\ CodecInit

\* The calls of the simple API (src/lib/fastdds.cpp).
SimpleNext ==
    \/ CreateSimplePublisher
    \/ CreateSimpleSubscriber
    \/ PublishSimpleMessage
    \/ ReceiveSimpleMessage
    \/ DestroySimplePublisher
    \/ DestroySimpleSubscriber

\* The calls of the participant-based API (src/fastdds.cpp).
LegacyNext ==
    \/ CreateParticipant
    \/ CreatePublisher
    \/ CreateSubscriber
    \/ PublishMessage
    \/ ReceiveMessage
    \/ DestroyPublisher
    \/ DestroySubscriber
    \/ DestroyParticipant

Next == SimpleNext \/ LegacyNext

\* A caller of both APIs.
Spec == Init /\ [][Next]_vars

\* A caller of the simple API alone.
SpecSimple == Init /\ [][SimpleNext]_vars

SpecCodec == Init /\ [][CodecNext]_vars

\* Publishers and subscribers of the simple API on one topic of an ordered
\* transport.
ChannelNext ==
    \/ CreateSimplePublisher
    \/ CreateSimpleSubscriber
    \/ OrderedPublishSimpleMessage
    \/ OrderedReceiveSimpleMessage

SpecChannel == Init /\ [][ChannelNext]_vars

\* Opens of both APIs followed by sends and receives of varied content.
MessageNext ==
    \/ CreateSimplePublisher
    \/ CreateSimpleSubscriber
    \/ CreateParticipant
    \/ CreatePublisher
    \/ CreateSubscriber
    \/ PublishSimpleMessageVaried
    \/ ReceiveSimpleMessageVaried
    \/ PublishMessageVaried
    \/ ReceiveMessageVaried

SpecMessage == Init /\ [][MessageNext]_vars

(***************************************************************************)
(* Properties of the lifecycle (checked under Spec).                       *)
(***************************************************************************)
IsFailedSimpleOpen ==
    last.op = "create" /\ last.api = "simple" /\ last.failed # "none"

\* C1: when step k of create_simple_publisher / create_simple_subscriber
\* fails, every resource acquired in the steps before it has been released
\* exactly once when the open returns, and no handle is returned.
LifecycleAtomicity ==
    IsFailedSimpleOpen =>
        /\ last.ret = 0
        /\ \A r \in last.acquired : res[r].rel = 1

\* The resources of wrapper w are present and linked to one another.
Linked(w) ==
    /\ w.participant # 0 /\ w.topic # 0 /\ w.group # 0 /\ w.endpoint # 0
    /\ res[w.participant].kind = "participant"
    /\ res[w.topic].kind = "topic" /\ res[w.topic].parent = w.participant
    /\ res[w.group].kind = "group" /\ res[w.group].parent = w.participant
    /\ res[w.endpoint].kind = "endpoint" /\ res[w.endpoint].parent = w.group

\* C2: a handle returned by an open (create_simple_publisher,
\* create_simple_subscriber, create_publisher, create_subscriber) has its
\* participant, topic, group and endpoint all present and linked.
FullyConstructed ==
    (last.op = "create" /\ last.ret # 0) => Linked(heap[last.ret])

\* C3: destroy_simple_publisher / destroy_simple_subscriber called on a
\* handle that was already closed, or on a null handle, is a no-op: no
\* fault, no second release of a resource, no access to freed memory.
IdempotentClose ==
    (last.op = "destroy" /\ last.api = "simple" /\ last.argst \in {"null", "freed"}) =>
        /\ fault = "none"
        /\ last.released = <<>>
        /\ \A r \in 1..Len(res) : res[r].rel <= 1

\* C4: a participant is live whenever a topic, group or endpoint created
\* from it is live, and a group is live whenever an endpoint created from it
\* is live.
ShutdownOrdering ==
    \A r \in 1..Len(res) :
        (Live(r) /\ res[r].parent # 0) => Live(res[r].parent)

IsCloseOfReady ==
    last.op = "destroy" /\ last.api = "simple" /\ last.ready

Kinds(rs) == [i \in 1..Len(rs) |-> res[rs[i]].kind]

\* C5 (as amended): destroy_simple_publisher / destroy_simple_subscriber on
\* a Ready handle releases the writer/reader, then the topic, then the
\* publisher/subscriber, then the participant, each exactly once.
CloseReleaseOrder ==
    IsCloseOfReady =>
        /\ Kinds(last.released) = <<"endpoint", "topic", "group", "participant">>
        /\ last.released = <<heap[last.arg].endpoint, heap[last.arg].topic,
                             heap[last.arg].group, heap[last.arg].participant>>
        /\ \A i \in 1..Len(last.released) : res[last.released[i]].rel = 1

\* C5 witness: a Ready publisher handle was closed.
CloseReleaseOrderWitness ==
    IsCloseOfReady /\ last.mode = "pub" /\ Len(last.released) = 4

\* C5 (as stated): the release order is the strict reverse of the
\* acquisition order.  Resource ids grow in acquisition order, so the ids
\* released must strictly decrease.
CloseReverseOfAcquisition ==
    IsCloseOfReady =>
        \A i, j \in 1..Len(last.released) :
            i < j => last.released[i] > last.released[j]

\* C6: publish_simple_message / receive_simple_message on a handle that is
\* not Ready fail fast with an error result, without a call of the
\* transport's write/read primitive and without touching a released resource
\* or freed memory.
FailFastUnlessReady ==
    (last.op \in {"send", "receive"} /\ last.api = "simple" /\ ~last.ready) =>
        /\ fault = "none"
        /\ last.ret = -1
        /\ last.prim = 0

(***************************************************************************)
(* Properties of the codecs (checked under SpecCodec).                     *)
(***************************************************************************)
MinHeaderSize == SizeofU32 + SizeofI64

IsRoundTrip == cpc = "decoded" /\ cout.from = "encoded"

\* C7: for every message whose text has at most 255 bytes,
\* deserialize(serialize(m)) has the same text bytes and the same timestamp,
\* whatever the buffer held before.
RoundTrip ==
    (IsRoundTrip /\ Len(cin.text) <= TextCopyMax) => cout.msg = cin

IsSimpleDecode == cpc = "decoded" /\ cout.codec = "simple"

\* C8: for a buffer shorter than the 12-byte minimum header,
\* SimpleMessageTypeSupport::deserialize fails and reads no byte at an index
\* >= the buffer's length.
BoundsSafety ==
    (IsSimpleDecode /\ cout.buflen < MinHeaderSize) =>
        (~cout.ok /\ cout.reads <= cout.buflen)

\* C9: for a buffer of at least 12 bytes whose length prefix exceeds
\* (buffer length - 12), SimpleMessageTypeSupport::deserialize fails and
\* reads no byte at an index >= the buffer's length.
TruncationSafety ==
    (IsSimpleDecode /\ cout.buflen >= MinHeaderSize
        /\ cout.declared > cout.buflen - MinHeaderSize) =>
        (~cout.ok /\ cout.reads <= cout.buflen)

IsSimpleEncode == cpc = "encoded" /\ cout.codec = "simple"

\* C10: the number of bytes serialize writes (payload.length) equals
\* calculate_serialized_size(m) = 4 + len(text) + 8, and serialize writes no
\* byte at an offset >= that size.
SizeConsistency ==
    IsSimpleEncode =>
        /\ cout.length = cout.size
        /\ cout.size = 4 + Len(cin.text) + 8
        /\ cout.hi <= cout.size
        /\ cout.tail

\* C10 witness: a non-empty text was serialized into a pooled buffer that
\* is longer than the message.
SizeConsistencyWitness ==
    IsSimpleEncode /\ Len(cin.text) = 2 /\ cout.length = 14


\* C14: serialize fails whenever the text is longer than the maximum of 255
\* bytes, and succeeds only for texts within it.
PayloadTooLargeRejected ==
    (cpc = "encoded" /\ Len(cin.text) > TextCopyMax) => ~cout.ok

(***************************************************************************)
(* Properties of the open results and steps.                               *)
(***************************************************************************)
\* C12: the result of a failed create_simple_publisher /
\* create_simple_subscriber identifies the step that failed: it differs from
\* the result returned for a failure of any other step.
OpenErrorIdentifiesStep ==
    IsFailedSimpleOpen =>
        \A k \in 1..Len(Steps) :
            Steps[k] # last.failed => OpenReturn(k, Len(heap) + 1) # last.ret

\* C18: an open (create_simple_publisher, create_simple_subscriber,
\* create_publisher, create_subscriber) attempts the steps in the fixed
\* order, attempts no step after one that failed, and returns a handle only
\* when no step failed.
StepsInOrder ==
    last.op = "create" =>
        /\ \E i \in 1..Len(Steps) :
              last.steps = SubSeq(Steps, i, i + Len(last.steps) - 1)
        /\ last.failed # "none" => last.steps[Len(last.steps)] = last.failed
        /\ last.ret # 0 => last.failed = "none"


(***************************************************************************)
(* Properties of send, close and independent handles (SpecSimple).         *)
(***************************************************************************)
\* C15: publish_simple_message on a Ready publisher calls write once, on the
\* handle's writer, returns 0 exactly when write reported RETCODE_OK and -1
\* for every other status and for an exception, and leaves the handle and
\* its resource chain unchanged.
SendResult ==
    [][(last'.op = "send" /\ last'.api = "simple" /\ last'.ready) =>
          /\ last'.prim = heap[last'.arg].endpoint
          /\ last'.ret \in {0, -1}
          /\ (last'.ret = 0) <=> (last'.how = "ok")
          /\ fault' = "none"
          /\ heap' = heap
          /\ res' = res
          /\ held' = held]_vars

\* C15 witness: write threw on a Ready publisher and the call returned -1.
SendResultWitness ==
    /\ last.op = "send" /\ last.api = "simple" /\ last.ready
    /\ last.how = "throw" /\ last.ret = -1

\* C17: whatever statuses the delete_* calls report, destroy_simple_publisher
\* / destroy_simple_subscriber on a Ready handle still calls delete_* on each
\* of its four resources, frees the wrapper and raises nothing.
TeardownDespiteErrors ==
    IsCloseOfReady =>
        /\ \A r \in {heap[last.arg].endpoint, heap[last.arg].topic,
                     heap[last.arg].group, heap[last.arg].participant} :
              \E i \in 1..Len(last.released) : last.released[i] = r
        /\ Len(last.statuses) = Len(last.released)
        /\ heap[last.arg].st = "freed"
        /\ fault = "none"

\* C17 witness: a Ready handle was closed and every delete_* call reported
\* an error.
TeardownDespiteErrorsWitness ==
    IsCloseOfReady /\ last.statuses = <<"error", "error", "error", "error">>

\* The resources of wrapper w.
ChainOf(w) == {w.participant, w.topic, w.group, w.endpoint} \ {0}

\* C19: a call of the simple API that is not undefined behaviour, made on one
\* handle (or creating one), leaves the wrapper of every other handle
\* obtained from create_simple_* and every resource of its chain unchanged.
IndependentHandles ==
    [][fault' = "none" =>
          \A h \in held :
              h # last'.arg =>
                  /\ heap'[h] = heap[h]
                  /\ \A r \in ChainOf(heap[h]) : res'[r] = res[r]]_vars

\* C19 witness: a Ready handle was closed while another handle is held and
\* still Ready.
IndependentHandlesWitness ==
    IsCloseOfReady /\ \E h \in held : h # last.arg /\ Ready(h)


(***************************************************************************)
(* Properties of receive (SpecMessage) and of delivery (SpecChannel).      *)
(***************************************************************************)
IsReceiveOnReady ==
    last.op = "receive" /\ last.api = "simple" /\ last.ready /\ fault = "none"

\* C11: receive_simple_message on a Ready subscriber whose reader has no
\* sample returns a result that differs from the result of every error (a
\* null or invalid handle, a failed read, an exception), and leaves the
\* caller's message unmodified.
EmptyIsNotAnError ==
    (IsReceiveOnReady /\ last.how = "nodata") =>
        /\ last.stored = last.before
        /\ last.ret # RejectReturn
        /\ last.ret # ReceiveReturn("error")
        /\ last.ret # ReceiveReturn("throw")

\* The payload the read took is shorter than the 12-byte header, or its
\* length prefix declares more text than the payload holds.
IsMalformedSample ==
    /\ last.took
    /\ \/ last.buflen < MinHeaderSize
       \/ last.declared > last.buflen - MinHeaderSize

\* C13: receive_simple_message never returns success for a sample whose
\* payload is malformed.
CorruptPayloadRejected ==
    (IsReceiveOnReady /\ IsMalformedSample) => last.ret # 0

\* C16: over an ordered transport, the messages the successful receives of
\* a reader have returned are, in order, the first of the messages accepted
\* for that reader, each once, with text and timestamp unchanged; and a
\* receive reports no data only when all of them have been returned.
OrderedDelivery ==
    /\ \A ep \in DOMAIN returned :
          /\ Len(returned[ep]) <= Len(Queue(accepted, ep))
          /\ \A i \in 1..Len(returned[ep]) : returned[ep][i] = accepted[ep][i]
    /\ (IsReceiveOnReady /\ last.how = "nodata") =>
          Len(Queue(returned, last.prim)) = Len(Queue(accepted, last.prim))

\* C20: when receive_simple_message or receive_message returns 0, the text
\* field of the caller's struct holds the first min(len, 255) bytes of the
\* decoded text followed by a NUL at an index <= 255, and no byte outside
\* the 256-byte field was written; when it returns anything else, the
\* caller's struct is as it was.
StoredTextBounded ==
    (last.op = "receive" /\ fault = "none") =>
        IF last.ret = 0
        THEN LET n == Min(Len(last.msg.text), TextCopyMax)
             IN  /\ Len(last.stored.message) = FieldSize(last.api)
                 /\ SubSeq(last.stored.message, 1, n) = SubSeq(last.msg.text, 1, n)
                 /\ n + 1 <= FieldSize(last.api)
                 /\ last.stored.message[n + 1] = 0
                 /\ last.hi <= FieldSize(last.api)
                 /\ last.stored.timestamp = last.msg.timestamp
        ELSE last.stored = last.before

\* C20 witness: receive_message returned a text of 255 bytes into a struct
\* whose text field held no NUL.
StoredTextBoundedWitness ==
    /\ last.op = "receive" /\ last.api = "legacy" /\ last.ret = 0
    /\ Len(last.msg.text) = TextCopyMax
    /\ last.before.message[HelloContentSize] = 65

====
